---- MODULE Spec2Model ----
(***************************************************************************)
(* Model of the persona-chat prototype:                                    *)
(*   data_loader.py  parse_raw_chat, clean_messages                        *)
(*   bot_engine.py   GeminiBot.build_prompt, _extract_text,                *)
(*                   generate_response                                     *)
(*   app.py          the Streamlit chat script (session message list)      *)
(* Text is modelled as a sequence of one-character strings, so that the    *)
(* regular expressions of the code are computed character by character.    *)
(***************************************************************************)
EXTENDS Naturals, Integers, Sequences, FiniteSets, TLC

VARIABLES
    f,            \* parse_raw_chat: the lines of the opened file
    pos,          \* parse_raw_chat: number of lines the for loop has consumed
    rows,         \* parse_raw_chat: the list `rows`
    df,           \* clean_messages: the rows of the DataFrame argument
    cpos,         \* clean_messages: number of rows iterrows() has yielded
    memories,     \* clean_messages: the list `memories`
    first_out,    \* result of the first clean_messages call (None before it returns)
    pass,         \* which clean_messages call is running (1, 2) or 3 when both returned
    hist,         \* build_prompt: argument `memories`
    user_input,   \* build_prompt: argument `user_input`
    persona_desc, \* build_prompt: argument `persona_desc`
    want_max,     \* the maxExamples the caller would like (the code takes no such argument)
    lines,        \* build_prompt: the list `lines`
    prompt,       \* build_prompt: the returned text ("" before the call)
    response,     \* _extract_text: argument `response`
    xpc,          \* _extract_text: the block about to run
    xresult,      \* _extract_text: the returned value
    xshape,       \* _extract_text: the block that returned (0 before the return)
    retry,        \* generate_response: argument `retry`
    attempt,      \* generate_response: loop variable `attempt` of the next iteration
    last_exc,     \* generate_response: local `last_exc`
    calls,        \* collaborator calls made so far
    outcomes,     \* what each collaborator call did, in order
    sleeps,       \* the delays passed to time.sleep, in order
    gstatus,      \* generate_response: "running", "returned" or "raised"
    gresult,      \* generate_response: returned text, or the cause carried by the raise
    messages,     \* app.py: st.session_state.messages
    history_for_gemini  \* app.py: the history of the latest model.start_chat call

parseVars   == <<f, pos, rows>>
cleanVars   == <<df, cpos, memories, first_out, pass>>
promptVars  == <<hist, user_input, persona_desc, want_max, lines, prompt>>
extractVars == <<response, xpc, xresult, xshape>>
retryVars   == <<retry, attempt, last_exc, calls, outcomes, sleeps, gstatus, gresult>>
appVars     == <<messages, history_for_gemini>>
vars == <<parseVars, cleanVars, promptVars, extractVars, retryVars, appVars>>

None == [t |-> "none"]

(***************************************************************************)
(* Bounds of the model.                                                    *)
(***************************************************************************)
MaxLines == 3
MaxTok == 4
MaxHist == 7
MaxRetry == 5
MaxMsgs == 6

(***************************************************************************)
(* Text helpers.                                                           *)
(***************************************************************************)
\* str.isspace / the regex class \s, on the characters the model uses
IsSpace(c) == c \in {" ", "\t", "\n"}

\* the regex class \d
IsDigit(c) == c \in {"0", "1"}

\* the regex class \w: letters, digits and the underscore
IsWord(c) == IsDigit(c) \/ c \in {"a", "b", "t", "u", "x", "e", "h", "i", "A", "B", "_"}

Min(a, b) == IF a <= b THEN a ELSE b

RECURSIVE LStrip(_)
LStrip(s) == IF s # <<>> /\ IsSpace(Head(s)) THEN LStrip(Tail(s)) ELSE s

RECURSIVE RStrip(_)
RStrip(s) ==
    IF s # <<>> /\ IsSpace(s[Len(s)]) THEN RStrip(SubSeq(s, 1, Len(s) - 1)) ELSE s

\* str.strip()
Strip(s) == RStrip(LStrip(s))

\* index of the first occurrence of character c in s at or after index i, 0 if none
RECURSIVE Find(_, _, _)
Find(s, c, i) ==
    IF i > Len(s) THEN 0
    ELSE IF s[i] = c THEN i
    ELSE Find(s, c, i + 1)

\* index of the first character at or after i that is not whitespace (Len(s)+1 if none)
RECURSIVE SkipSpace(_, _)
SkipSpace(s, i) ==
    IF i <= Len(s) /\ IsSpace(s[i]) THEN SkipSpace(s, i + 1) ELSE i

(***************************************************************************)
(* data_loader.py: parse_raw_chat                                          *)
(***************************************************************************)
NoMatch == [matched |-> FALSE]

\* CHAT_LINE_RE.match(line): ^\[(time .*?)\]\s*(sender .*?):\s*(content .*)$
\* The lazy groups stop at the first "]" and at the first ":" after it; a later
\* "]" has a ":" behind it only if the first one has.
CHAT_LINE_RE(line) ==
    IF line = <<>> \/ Head(line) # "[" THEN NoMatch
    ELSE LET rb == Find(line, "]", 2) IN
         IF rb = 0 THEN NoMatch
         ELSE LET ss == SkipSpace(line, rb + 1)
                  co == Find(line, ":", rb + 1)
              IN IF co = 0 THEN NoMatch
                 ELSE [matched |-> TRUE,
                       time    |-> SubSeq(line, 2, rb - 1),
                       sender  |-> SubSeq(line, ss, co - 1),
                       content |-> SubSeq(line, SkipSpace(line, co + 1), Len(line))]

groupdict(m) == [time |-> m.time, sender |-> m.sender, content |-> m.content]

\* faulty variant: the continuation is glued on without the newline separator
ParseStepNoSeparator(rs, raw) ==
    LET line == Strip(raw)
        m    == CHAT_LINE_RE(line)
    IN IF line = <<>> THEN rs
       ELSE IF m.matched THEN Append(rs, groupdict(m))
       ELSE IF rs # <<>>
            THEN [rs EXCEPT ![Len(rs)].content = @ \o line]
            ELSE rs

\* one iteration of `for line in f`
ParseStep(rs, raw) ==
    LET line == Strip(raw)
        m    == CHAT_LINE_RE(line)
    IN IF line = <<>> THEN rs
       ELSE IF m.matched THEN Append(rs, groupdict(m))
       ELSE IF rs # <<>>
            THEN [rs EXCEPT ![Len(rs)].content = @ \o <<"\n">> \o line]
            ELSE rs

\* lines a chat export can hold (without the line terminator)
SampleLines ==
    { <<>>,
      <<" ", "\t">>,
      <<"[", "t", "]", " ", "A", ":", " ", "h", "i">>,
      <<"[", "u", "]", "B", ":", "x">>,
      <<" ", "[", "t", "]", " ", "A", ":", " ", "h", " ", "i", " ">>,
      <<"e", "x">>,
      <<" ", "e", " ", "x", "\t">>,
      <<"[", "t", "]", " ", "e">>,
      <<"A", ":", " ", "x">>,
      <<"[", "t", ":", "x">>,
      <<"[", "t", "]", " ", "A", ":">>,
      <<"[", "]", " ", ":", "x">>,
      <<"[", "t", "]", "]", " ", "A", " ", ":", ":", " ", "b">> }

RECURSIVE SeqsUpTo(_, _)
SeqsUpTo(S, n) ==
    IF n = 0 THEN {<<>>}
    ELSE LET shorter == SeqsUpTo(S, n - 1)
         IN shorter \cup {Append(s, e) : s \in {q \in shorter : Len(q) = n - 1}, e \in S}

ParseIdle == f = <<>> /\ pos = 0 /\ rows = <<>>
CleanIdle == df = <<>> /\ cpos = 0 /\ memories = <<>> /\ first_out = None /\ pass = 1
PromptIdle ==
    /\ hist = <<>> /\ user_input = "" /\ persona_desc = "" /\ want_max = 0
    /\ lines = <<>> /\ prompt = ""
ExtractIdle == response = None /\ xpc = "idle" /\ xresult = None /\ xshape = 0
RetryIdle ==
    /\ retry = 0 /\ attempt = 0 /\ last_exc = None /\ calls = 0
    /\ outcomes = <<>> /\ sleeps = <<>> /\ gstatus = "idle" /\ gresult = None
AppIdle == messages = <<>> /\ history_for_gemini = <<>>

InitParse ==
    /\ f \in SeqsUpTo(SampleLines, MaxLines)
    /\ pos = 0
    /\ rows = <<>>
    /\ CleanIdle /\ PromptIdle /\ ExtractIdle /\ RetryIdle /\ AppIdle

\* the body of the for loop, for the next line of the file
ParseLine ==
    /\ pos < Len(f)
    /\ rows' = ParseStep(rows, f[pos + 1])
    /\ pos' = pos + 1
    /\ UNCHANGED <<f, cleanVars, promptVars, extractVars, retryVars, appVars>>

NextParse == ParseLine

SpecParse == InitParse /\ [][NextParse]_vars

(***************************************************************************)
(* C4: what parse_raw_chat has built after any number of lines.            *)
(***************************************************************************)
Consumed == SubSeq(f, 1, pos)

IsBlank(raw) == Strip(raw) = <<>>
IsChatLine(raw) == CHAT_LINE_RE(Strip(raw)).matched
IsContinuation(raw) == ~IsBlank(raw) /\ ~IsChatLine(raw)

MatchIdx(ls) == {i \in 1..Len(ls) : IsChatLine(ls[i])}

\* index of the k-th matching line of ls
KthMatch(ls, k) ==
    CHOOSE i \in MatchIdx(ls) : Cardinality({j \in MatchIdx(ls) : j <= i}) = k

\* the continuation lines i..j of ls, each behind a newline
RECURSIVE Continuations(_, _, _)
Continuations(ls, i, j) ==
    IF i > j THEN <<>>
    ELSE (IF IsContinuation(ls[i]) THEN <<"\n">> \o Strip(ls[i]) ELSE <<>>)
         \o Continuations(ls, i + 1, j)

\* C4: after the lines consumed so far, rows holds one record per matching line,
\* in input order, each with the captured time and sender and with the captured
\* content followed by the newline-separated continuation lines up to the next
\* matching line; blank lines and continuation lines before the first record
\* leave no trace, so blank-only input yields no record.
C4_ParseSinglePass ==
    LET ls == Consumed
        n  == Cardinality(MatchIdx(ls))
    IN /\ Len(rows) = n
       /\ \A k \in 1..n :
            LET i    == KthMatch(ls, k)
                last == IF k = n THEN Len(ls) ELSE KthMatch(ls, k + 1) - 1
                m    == CHAT_LINE_RE(Strip(ls[i]))
            IN /\ rows[k].time = m.time
               /\ rows[k].sender = m.sender
               /\ rows[k].content = m.content \o Continuations(ls, i + 1, last)
       /\ ((\A i \in 1..Len(ls) : IsBlank(ls[i])) => rows = <<>>)

\* a record with a merged continuation behind a dropped leading line and a blank one
C4_Witness ==
    /\ pos = Len(f) /\ pos = 3
    /\ IsContinuation(f[1]) /\ IsChatLine(f[2]) /\ IsContinuation(f[3])
    /\ Len(rows) = 1
    /\ rows[1].content = <<"h", "i", "\n", "e", "x">>

(***************************************************************************)
(* data_loader.py: clean_messages                                          *)
(***************************************************************************)
\* \d{10}: the digits that follow the leading 1
TailDigits == 10

\* the replacement text '[PHONE]'
PHONE == <<"[", "P", "H", "O", "N", "E", "]">>

IsWordAt(s, i) == i >= 1 /\ i <= Len(s) /\ IsWord(s[i])

\* the regex assertion \b in front of index i (i in 1..Len(s)+1)
WordBoundary(s, i) == IsWordAt(s, i - 1) # IsWordAt(s, i)

\* faulty variant: the closing \b of the pattern is missing
PhoneMatchAtNoClosingBoundary(s, i) ==
    /\ i + TailDigits <= Len(s)
    /\ WordBoundary(s, i)
    /\ s[i] = "1"
    /\ \A j \in (i + 1)..(i + TailDigits) : IsDigit(s[j])

\* whether \b1\d{10}\b matches at index i
PhoneMatchAt(s, i) ==
    /\ i + TailDigits <= Len(s)
    /\ WordBoundary(s, i)
    /\ s[i] = "1"
    /\ \A j \in (i + 1)..(i + TailDigits) : IsDigit(s[j])
    /\ WordBoundary(s, i + TailDigits + 1)

\* re.sub(r'\b1\d{10}\b', '[PHONE]', s), scanning from index i
RECURSIVE PhoneSubFrom(_, _)
PhoneSubFrom(s, i) ==
    IF i > Len(s) THEN <<>>
    ELSE IF PhoneMatchAt(s, i) THEN PHONE \o PhoneSubFrom(s, i + TailDigits + 1)
    ELSE <<s[i]>> \o PhoneSubFrom(s, i + 1)

PhoneSub(s) == PhoneSubFrom(s, 1)

\* faulty variant: whitespace runs are deleted instead of replaced by one space
RECURSIVE CollapseToNothing(_)
CollapseToNothing(s) ==
    IF s = <<>> THEN <<>>
    ELSE IF IsSpace(Head(s)) THEN CollapseToNothing(Tail(s))
    ELSE <<Head(s)>> \o CollapseToNothing(Tail(s))

\* re.sub(r'\s+', ' ', s)
RECURSIVE Collapse(_)
Collapse(s) ==
    IF s = <<>> THEN <<>>
    ELSE IF IsSpace(Head(s)) THEN <<" ">> \o Collapse(LStrip(s))
    ELSE <<Head(s)>> \o Collapse(Tail(s))

\* the content after lines 51 and 53
CleanContent(s) == Strip(Collapse(PhoneSub(s)))

\* one iteration of `for _, row in df.iterrows()`
CleanStep(mems, row) ==
    LET content == CleanContent(row.content)
    IN IF content = <<>> THEN mems
       ELSE Append(mems, [time |-> row.time, sender |-> row.sender, content |-> content])

\* pieces the contents of the rows are put together from; ROW ends a row
Block == <<"0", "0", "0", "0", "0", "0", "0", "0", "0", "0">>
ROW == <<"ROW">>
Tokens == {<<"1">>, <<"a">>, <<"_">>, <<" ">>, <<"\n">>, Block, ROW}

\* the contents of the rows a token sequence spells
RECURSIVE SplitRows(_, _)
SplitRows(ts, cur) ==
    IF ts = <<>> THEN <<cur>>
    ELSE IF Head(ts) = ROW THEN <<cur>> \o SplitRows(Tail(ts), <<>>)
    ELSE SplitRows(Tail(ts), cur \o Head(ts))

\* a DataFrame with columns time, sender, content; time numbers the rows
MakeDf(ts) ==
    LET cs == SplitRows(ts, <<>>)
    IN [i \in 1..Len(cs) |-> [time |-> i, sender |-> "A", content |-> cs[i]]]

InitClean ==
    /\ df \in {MakeDf(ts) : ts \in SeqsUpTo(Tokens, MaxTok)}
    /\ cpos = 0
    /\ memories = <<>>
    /\ first_out = None
    /\ pass = 1
    /\ ParseIdle /\ PromptIdle /\ ExtractIdle /\ RetryIdle /\ AppIdle

\* the body of the for loop, for the next row of the DataFrame
CleanRow ==
    /\ pass \in {1, 2}
    /\ cpos < Len(df)
    /\ memories' = CleanStep(memories, df[cpos + 1])
    /\ cpos' = cpos + 1
    /\ UNCHANGED <<df, first_out, pass>>
    /\ UNCHANGED <<parseVars, promptVars, extractVars, retryVars, appVars>>

\* the first call returns memories; its records are handed to the pass again
CleanReturnFirst ==
    /\ pass = 1
    /\ cpos = Len(df)
    /\ first_out' = memories
    /\ df' = memories
    /\ cpos' = 0
    /\ memories' = <<>>
    /\ pass' = 2
    /\ UNCHANGED <<parseVars, promptVars, extractVars, retryVars, appVars>>

\* the second call returns memories
CleanReturnSecond ==
    /\ pass = 2
    /\ cpos = Len(df)
    /\ pass' = 3
    /\ UNCHANGED <<df, cpos, memories, first_out>>
    /\ UNCHANGED <<parseVars, promptVars, extractVars, retryVars, appVars>>

NextClean == CleanRow \/ CleanReturnFirst \/ CleanReturnSecond

SpecClean == InitClean /\ [][NextClean]_vars

\* C5: cleaning the records of clean(x) again returns clean(x): the same
\* records, in the same order, with the same contents.
C5_CleanIdempotent == pass = 3 => memories = first_out

\* both passes ran over a redacted record that follows a dropped row
C5_Witness ==
    /\ pass = 3
    /\ Len(first_out) = 1
    /\ first_out[1].time = 2
    /\ first_out[1].content = PHONE

\* an 11-digit run that starts with 1 and is a whole word of s, at index i
IsWholeWordPhone(s, i) ==
    /\ i + TailDigits <= Len(s)
    /\ s[i] = "1"
    /\ \A j \in (i + 1)..(i + TailDigits) : IsDigit(s[j])
    /\ (i = 1 \/ ~IsWord(s[i - 1]))
    /\ (i + TailDigits = Len(s) \/ ~IsWord(s[i + TailDigits + 1]))

\* an 11-digit run that starts with 1, anywhere in s, at index i
IsPhoneRun(s, i) ==
    /\ i + TailDigits <= Len(s)
    /\ s[i] = "1"
    /\ \A j \in (i + 1)..(i + TailDigits) : IsDigit(s[j])

WholeWordPhones(s) == {i \in 1..Len(s) : IsWholeWordPhone(s, i)}

Placeholders(s) == {i \in 1..Len(s) : s[i] = "["}

\* C6 as stated: no cleaned content holds an 11-digit run that starts with 1,
\* wherever the run stood in the input.
C6_NoPhoneRunAnywhere ==
    pass = 1 =>
        \A k \in 1..Len(memories) :
            \A i \in 1..Len(memories[k].content) : ~IsPhoneRun(memories[k].content, i)

\* C6 amended: the pass redacts exactly the 11-digit runs starting with 1 that
\* are whole words (not adjacent to a letter, a digit or an underscore): a row
\* holding n of them survives with n placeholders, no cleaned content holds
\* such a whole-word run, and a row without one gets no placeholder.
C6_WholeWordPhonesRedacted ==
    pass = 1 =>
        /\ \A k \in 1..Len(memories) :
             /\ WholeWordPhones(memories[k].content) = {}
             /\ Cardinality(Placeholders(memories[k].content))
                  = Cardinality(WholeWordPhones(df[memories[k].time].content))
        /\ \A i \in 1..cpos :
             WholeWordPhones(df[i].content) # {}
                => \E k \in 1..Len(memories) : memories[k].time = i

\* a whole-word number was redacted and the rest of the content kept
C6_Witness ==
    /\ pass = 1 /\ cpos = 1 /\ Len(df) = 1
    /\ df[1].content = <<"1">> \o Block \o <<"\n", "a">>
    /\ memories[1].content = PHONE \o <<" ", "a">>

(***************************************************************************)
(* bot_engine.py: GeminiBot.build_prompt                                   *)
(***************************************************************************)
MAX_EXAMPLES == 6

\* m.get(key, default) on a record of the memory list
Get(m, key, default) == IF key \in DOMAIN m THEN m[key] ELSE default

\* xs[-n:] for n > 0: the last n elements, or all of xs when it is shorter
LastSlice(xs, n) == SubSeq(xs, IF Len(xs) > n THEN Len(xs) - n + 1 ELSE 1, Len(xs))

\* reversed(xs)
RECURSIVE Reversed(_)
Reversed(xs) == IF xs = <<>> THEN <<>> ELSE Append(Reversed(Tail(xs)), Head(xs))

\* f"{sender}: {content}"
RenderLine(m) == Get(m, "sender", "Unknown") \o ": " \o Get(m, "content", "")

\* "\n".join(ls)
RECURSIVE Join(_)
Join(ls) ==
    IF ls = <<>> THEN ""
    ELSE IF Len(ls) = 1 THEN ls[1]
    ELSE ls[1] \o "\n" \o Join(Tail(ls))

\* faulty variant: the window is cut from the front of the list
ChosenFromFront(mems) == SubSeq(mems, 1, Min(Len(mems), MAX_EXAMPLES))

\* chosen = memories[-MAX_EXAMPLES:] if memories else []
Chosen(mems) == IF mems # <<>> THEN LastSlice(mems, MAX_EXAMPLES) ELSE <<>>

\* the list `lines` when build_prompt reaches its return
BuildLines(mems, input, persona) ==
    LET chosen == Chosen(mems)
        rev    == Reversed(chosen)
    IN (IF persona # "" THEN <<"Personality: " \o persona \o "\n">> ELSE <<>>)
       \o <<"Conversation history (most recent first):">>
       \o [i \in 1..Len(rev) |-> RenderLine(rev[i])]
       \o <<"\nUser: " \o input, "Assistant:">>

\* records of a memory list; the last one has no sender
MemoryRecords ==
    { [sender |-> "A", content |-> "x"],
      [sender |-> "B", content |-> "y"],
      [content |-> "z"] }

InitPrompt ==
    /\ hist \in SeqsUpTo(MemoryRecords, MaxHist)
    /\ user_input \in {"hello"}
    /\ persona_desc \in {"", "gentle"}
    /\ want_max \in {1, MAX_EXAMPLES, MaxHist}
    /\ lines = <<>>
    /\ prompt = ""
    /\ ParseIdle /\ CleanIdle /\ ExtractIdle /\ RetryIdle /\ AppIdle

\* the call build_prompt(hist, user_input, persona_desc)
BuildPrompt ==
    /\ prompt = ""
    /\ lines' = BuildLines(hist, user_input, persona_desc)
    /\ prompt' = Join(lines')
    /\ UNCHANGED <<hist, user_input, persona_desc, want_max>>
    /\ UNCHANGED <<parseVars, cleanVars, extractVars, retryVars, appVars>>

NextPrompt == BuildPrompt

SpecPrompt == InitPrompt /\ [][NextPrompt]_vars

\* the `sender: content` lines of the prompt: those between the header line
\* and the two closing lines
MessageLines ==
    LET off == IF persona_desc # "" THEN 2 ELSE 1
    IN SubSeq(lines, off + 1, Len(lines) - 2)

\* the last n records of hist, most recent first, as prompt lines
LastRendered(n) ==
    [i \in 1..Min(n, Len(hist)) |->
        Get(hist[Len(hist) - i + 1], "sender", "Unknown") \o ": "
            \o Get(hist[Len(hist) - i + 1], "content", "")]

\* C7 as stated: the rendered lines are the last min(maxExamples, length of
\* history) records, most recent first, for the maxExamples the caller chose.
C7_WindowChosenByCaller ==
    prompt # "" => MessageLines = LastRendered(want_max)

\* C7 amended: the rendered lines are exactly the last min(6, length of
\* history) records, most recent first, whatever window the caller would like:
\* the window is the fixed MAX_EXAMPLES = 6 of build_prompt.
C7_LastSixMostRecentFirst ==
    prompt # "" =>
        /\ MessageLines = LastRendered(6)
        /\ lines[Len(lines)] = "Assistant:"
        /\ lines[Len(lines) - 1] = "\nUser: " \o user_input

\* a history longer than the window: its oldest record is left out
C7_Witness ==
    /\ prompt # ""
    /\ Len(hist) = 7
    /\ hist[1] = [content |-> "z"] /\ hist[2] = [sender |-> "A", content |-> "x"]
    /\ hist[7] = [sender |-> "B", content |-> "y"]
    /\ Len(MessageLines) = 6
    /\ MessageLines[1] = "B: y" /\ MessageLines[6] = "A: x"

(***************************************************************************)
(* bot_engine.py: GeminiBot._extract_text                                  *)
(* Python values: None, str, int, list, dict and objects with attributes.  *)
(***************************************************************************)
Absent == [t |-> "absent"]
S(x) == [t |-> "str", v |-> x]
I(n) == [t |-> "int", n |-> n]
L(xs) == [t |-> "list", elems |-> xs]
D(m) == [t |-> "dict", items |-> m]
O(m) == [t |-> "obj", attrs |-> m]

\* a mapping that holds the keys of val whose value is not Absent
MkMap(val) == [k \in {x \in DOMAIN val : val[x] # Absent} |-> val[k]]

\* bool(x)
Truthy(x) ==
    CASE x.t = "none" -> FALSE
      [] x.t = "str"  -> x.v # ""
      [] x.t = "int"  -> x.n # 0
      [] x.t = "list" -> x.elems # <<>>
      [] x.t = "dict" -> DOMAIN x.items # {}
      [] OTHER        -> TRUE

\* a or b
Or(a, b) == IF Truthy(a) THEN a ELSE b

\* hasattr(x, name), for the names the code probes
HasAttr(x, name) ==
    CASE x.t = "obj"  -> name \in DOMAIN x.attrs
      [] x.t = "dict" -> name = "get"
      [] OTHER        -> FALSE

\* x.name, where hasattr(x, name) holds
Attr(x, name) == x.attrs[name]

\* d.get(key)
DGet(d, key) == IF key \in DOMAIN d.items THEN d.items[key] ELSE None

\* isinstance(x, dict)
IsDict(x) == x.t = "dict"

\* whether x[0] raises (TypeError, IndexError or KeyError)
Index0Raises(x) ==
    CASE x.t = "list" -> x.elems = <<>>
      [] x.t = "str"  -> x.v = ""
      [] OTHER        -> TRUE

\* x[0], where it does not raise; the first character of a str is a str, which
\* has none of the probed attributes and is no dict
Index0(x) == IF x.t = "list" THEN x.elems[1] ELSE S("c")

\* whether len(x) raises TypeError
LenRaises(x) == x.t \in {"none", "int", "obj"}

\* str(x): a str stays as it is, any other value gives its non-empty text form
Str(x) == IF x.t = "str" THEN x ELSE [t |-> "str", v |-> "repr", of |-> x]

Return(x) == [ret |-> TRUE, val |-> x]
NoReturn == [ret |-> FALSE]

\* block 1 (lines 102-115): response.choices[0].message.content
Shape1(resp) ==
    IF HasAttr(resp, "choices") /\ Truthy(Attr(resp, "choices"))
    THEN IF Index0Raises(Attr(resp, "choices")) THEN NoReturn
         ELSE LET first == Index0(Attr(resp, "choices")) IN
              IF HasAttr(first, "message") /\ HasAttr(Attr(first, "message"), "get")
              THEN Return(Or(DGet(Attr(first, "message"), "content"),
                             Str(Attr(first, "message"))))
              ELSE IF HasAttr(first, "message")
                      /\ HasAttr(Attr(first, "message"), "content")
              THEN Return(Attr(Attr(first, "message"), "content"))
              ELSE IF HasAttr(first, "text") THEN Return(Attr(first, "text"))
              ELSE NoReturn
    ELSE NoReturn

\* block 2 (lines 118-128): response.candidates[0].output, .content or .text
Shape2(resp) ==
    IF HasAttr(resp, "candidates") /\ Truthy(Attr(resp, "candidates"))
    THEN IF Index0Raises(Attr(resp, "candidates")) THEN NoReturn
         ELSE LET cand == Index0(Attr(resp, "candidates")) IN
              IF HasAttr(cand, "output") THEN Return(Attr(cand, "output"))
              ELSE IF HasAttr(cand, "content") THEN Return(Attr(cand, "content"))
              ELSE IF HasAttr(cand, "text") THEN Return(Attr(cand, "text"))
              ELSE NoReturn
    ELSE NoReturn

\* lines 142-146 of block 3: the candidates or outputs of a dict response
Shape3Candidates(resp) ==
    LET cands == Or(DGet(resp, "candidates"), DGet(resp, "outputs")) IN
    IF ~Truthy(cands) THEN NoReturn
    ELSE IF LenRaises(cands) \/ Index0Raises(cands) THEN NoReturn
    ELSE LET first == Index0(cands) IN
         IF IsDict(first)
         THEN Return(Or(DGet(first, "content"),
                        Or(DGet(first, "output"), Or(DGet(first, "text"), Str(first)))))
         ELSE NoReturn

\* block 3 (lines 131-148): dict-like responses
Shape3(resp) ==
    IF ~IsDict(resp) THEN NoReturn
    ELSE LET choices == DGet(resp, "choices") IN
         IF ~Truthy(choices) THEN Shape3Candidates(resp)
         ELSE IF LenRaises(choices) \/ Index0Raises(choices) THEN NoReturn
         ELSE LET first == Index0(choices) IN
              IF ~IsDict(first) THEN Shape3Candidates(resp)
              ELSE LET msg == Or(DGet(first, "message"), Or(DGet(first, "delta"), first)) IN
                   IF IsDict(msg)
                   THEN Return(Or(DGet(msg, "content"), Or(DGet(msg, "text"), Str(msg))))
                   ELSE Shape3Candidates(resp)

\* block 4 (line 151): str(response)
Shape4(resp) == Return(Str(resp))

\* _extract_text(response): the value of the first block that returns
ExtractText(resp) ==
    IF Shape1(resp).ret THEN Shape1(resp).val
    ELSE IF Shape2(resp).ret THEN Shape2(resp).val
    ELSE IF Shape3(resp).ret THEN Shape3(resp).val
    ELSE Shape4(resp).val

\* values of a field that is present
Scalars == {None, S(""), S("hi"), I(7)}

\* responses with attributes: choices[0] carries message and text,
\* candidates[0] carries output, content and text; any of them may be missing
MessageAttrs ==
    {Absent, None}
    \cup {D(MkMap([content |-> c])) : c \in Scalars \cup {Absent}}
    \cup {O(MkMap([content |-> c])) : c \in Scalars \cup {Absent}}

ChoiceObjects ==
    {O(MkMap([message |-> m, text |-> x])) : m \in MessageAttrs, x \in Scalars \cup {Absent}}

ChoicesAttrs == {Absent, None, L(<<>>), I(7)} \cup {L(<<x>>) : x \in ChoiceObjects}

CandidateObjects ==
    {O(MkMap([output |-> o, content |-> c, text |-> x])) :
        o \in {Absent, None, S(""), S("ok")},
        c \in {Absent, S(""), S("c")},
        x \in {Absent, S("t")}}

CandidatesAttrs == {Absent, L(<<>>)} \cup {L(<<x>>) : x \in CandidateObjects}

ObjectResponses ==
    {O(MkMap([choices |-> ch, candidates |-> ca])) :
        ch \in ChoicesAttrs, ca \in CandidatesAttrs}

\* responses that are plain dicts
DictMessages ==
    {D(MkMap([content |-> c, text |-> x])) :
        c \in {Absent, S(""), S("hi")}, x \in {Absent, S("tx")}}

DictChoices ==
    {D(MkMap([message |-> m, delta |-> d, content |-> c])) :
        m \in {Absent, None, S("m")} \cup DictMessages,
        d \in {Absent, D([content |-> S("d")])},
        c \in {Absent, S("fc")}}

DictChoicesValues ==
    {Absent, L(<<>>), I(7), L(<<S("hi")>>)} \cup {L(<<x>>) : x \in DictChoices}

DictCandidates ==
    {D(MkMap([content |-> c, output |-> o, text |-> x])) :
        c \in {Absent, S(""), S("c")}, o \in {Absent, S("ok")}, x \in {Absent, S("t")}}

DictCandidatesValues ==
    {Absent, L(<<>>), L(<<S("x")>>)} \cup {L(<<x>>) : x \in DictCandidates}

DictOutputsValues == {Absent, L(<<D([text |-> S("o")])>>)}

DictResponses ==
    {D(MkMap([choices |-> ch, candidates |-> ca, outputs |-> ou])) :
        ch \in DictChoicesValues, ca \in DictCandidatesValues, ou \in DictOutputsValues}

OtherResponses == {None, S(""), S("plain"), I(7), L(<<>>)}

Responses == ObjectResponses \cup DictResponses \cup OtherResponses

InitExtract ==
    /\ response \in Responses
    /\ xpc = "shape1"
    /\ xresult = None
    /\ xshape = 0
    /\ ParseIdle /\ CleanIdle /\ PromptIdle /\ RetryIdle /\ AppIdle

\* a block of _extract_text: it returns a value, or control reaches the next block
TryShape(k, r, next) ==
    /\ IF r.ret
       THEN xresult' = r.val /\ xshape' = k /\ xpc' = "done"
       ELSE xpc' = next /\ UNCHANGED <<xresult, xshape>>
    /\ UNCHANGED <<response, parseVars, cleanVars, promptVars, retryVars, appVars>>

TryShape1 == xpc = "shape1" /\ TryShape(1, Shape1(response), "shape2")
TryShape2 == xpc = "shape2" /\ TryShape(2, Shape2(response), "shape3")
TryShape3 == xpc = "shape3" /\ TryShape(3, Shape3(response), "shape4")
Fallback  == xpc = "shape4" /\ TryShape(4, Shape4(response), "done")

NextExtract == TryShape1 \/ TryShape2 \/ TryShape3 \/ Fallback

SpecExtract == InitExtract /\ [][NextExtract]_vars

\* C1: _extract_text never raises and its result is always a string, for every
\* response value, also when a probed field is absent, empty, None or not text.
C1_AlwaysReturnsString == xpc = "done" => xresult.t = "str"

\* x is text, or a collection, mapping or object that holds only such values
RECURSIVE TextOnly(_)
TextOnly(x) ==
    CASE x.t = "str"  -> TRUE
      [] x.t = "list" -> \A i \in 1..Len(x.elems) : TextOnly(x.elems[i])
      [] x.t = "dict" -> \A k \in DOMAIN x.items : TextOnly(x.items[k])
      [] x.t = "obj"  -> \A k \in DOMAIN x.attrs : TextOnly(x.attrs[k])
      [] OTHER        -> FALSE

\* the responses in which every field that is present is text
InitExtractText == InitExtract /\ TextOnly(response)

SpecExtractText == InitExtractText /\ [][NextExtract]_vars

\* what block k of _extract_text yields for the response
Yield(k) ==
    CASE k = 1 -> Shape1(response)
      [] k = 2 -> Shape2(response)
      [] k = 3 -> Shape3(response)
      [] OTHER -> Shape4(response)

\* block k yields a non-empty result
YieldsNonEmpty(k) == Yield(k).ret /\ Truthy(Yield(k).val)

\* C8: the returned text is that of the first shape, in the order 1 to 4, that
\* yields a non-empty result; a shape's empty value is never returned while a
\* lower-priority shape would yield a non-empty one.
C8_FirstNonEmptyShapeWins ==
    xpc = "done" =>
        /\ \A k \in 1..4 :
             (YieldsNonEmpty(k) /\ \A j \in 1..(k - 1) : ~YieldsNonEmpty(j))
                => xresult = Yield(k).val
        /\ ~Truthy(xresult) => \A k \in (xshape + 1)..4 : ~YieldsNonEmpty(k)

(***************************************************************************)
(* bot_engine.py: GeminiBot.generate_response                              *)
(***************************************************************************)
\* faulty variant: the loop runs range(retry) instead of range(retry + 1)
InLoopOneShort(a, r) == a < r

\* `for attempt in range(retry + 1)`: whether iteration a runs
InLoop(a, r) == a < r + 1

\* faulty variant: the handler keeps the first exception it saw
KeepFirstExc(prev, e) == IF prev = None THEN e ELSE prev

\* `last_exc = e`
NewLastExc(prev, e) == e

\* min(10, 1 + attempt * 2)
Backoff(a) == Min(10, 1 + a * 2)

\* the exception an attempt ends with
Exc(kind, a) == [t |-> "exc", kind |-> kind, at |-> a]

\* errors the SDK call can raise
SdkErrors == {"Timeout", "ApiError"}

\* replies of the SDK call that are not None
OkReply == D([candidates |-> L(<<D([output |-> S("ok")])>>)])
ChatReply == O([choices |-> L(<<O([message |-> O([content |-> S("hi")])])>>)])
Replies == {OkReply, ChatReply, O([candidates |-> L(<<O([output |-> None])>>)]), S("plain")}

InitRetry ==
    /\ retry \in 0..MaxRetry
    /\ attempt = 0
    /\ last_exc = None
    /\ calls = 0
    /\ outcomes = <<>>
    /\ sleeps = <<>>
    /\ gstatus = "running"
    /\ gresult = None
    /\ ParseIdle /\ CleanIdle /\ PromptIdle /\ ExtractIdle /\ AppIdle

\* the except block of lines 174-178, for exception e of the current attempt
Handle(e) ==
    /\ last_exc' = NewLastExc(last_exc, e)
    /\ sleeps' = Append(sleeps, Backoff(attempt))
    /\ attempt' = attempt + 1
    /\ calls' = calls + 1
    /\ outcomes' = Append(outcomes, [ok |-> FALSE, exc |-> e])
    /\ UNCHANGED <<retry, gstatus, gresult>>
    /\ UNCHANGED <<parseVars, cleanVars, promptVars, extractVars, appVars>>

\* an iteration whose SDK call returns a reply: its text is returned
CallReturns ==
    /\ gstatus = "running"
    /\ InLoop(attempt, retry)
    /\ \E resp \in Replies :
         /\ gresult' = ExtractText(resp)
         /\ outcomes' = Append(outcomes, [ok |-> TRUE, resp |-> resp])
    /\ gstatus' = "returned"
    /\ calls' = calls + 1
    /\ UNCHANGED <<retry, attempt, last_exc, sleeps>>
    /\ UNCHANGED <<parseVars, cleanVars, promptVars, extractVars, appVars>>

\* an iteration whose SDK call raises
CallRaises ==
    /\ gstatus = "running"
    /\ InLoop(attempt, retry)
    /\ \E kind \in SdkErrors : Handle(Exc(kind, attempt))

\* an iteration whose SDK call returns None: line 169 raises RuntimeError
CallReturnsNone ==
    /\ gstatus = "running"
    /\ InLoop(attempt, retry)
    /\ Handle(Exc("Empty response from model", attempt))

\* line 180: the loop is over, RuntimeError carries last_exc in its message
RaiseAfterLoop ==
    /\ gstatus = "running"
    /\ ~InLoop(attempt, retry)
    /\ gstatus' = "raised"
    /\ gresult' = last_exc
    /\ UNCHANGED <<retry, attempt, last_exc, calls, outcomes, sleeps>>
    /\ UNCHANGED <<parseVars, cleanVars, promptVars, extractVars, appVars>>

NextRetry == CallReturns \/ CallRaises \/ CallReturnsNone \/ RaiseAfterLoop

SpecRetry == InitRetry /\ [][NextRetry]_vars

Failures == Cardinality({i \in 1..Len(outcomes) : ~outcomes[i].ok})

\* C2: with k <= retry failed attempts followed by a successful one, the call
\* returns the text of the successful reply after exactly k + 1 collaborator
\* calls, and no error is surfaced while at most retry attempts have failed.
C2_SuccessAfterFailures ==
    /\ gstatus = "returned" =>
         /\ calls = Len(outcomes)
         /\ calls = Failures + 1
         /\ Failures <= retry
         /\ outcomes[calls].ok
         /\ gresult = ExtractText(outcomes[calls].resp)
         /\ (outcomes[calls].resp = OkReply => gresult = S("ok"))
         /\ (outcomes[calls].resp = ChatReply => gresult = S("hi"))
    /\ gstatus = "raised" => Failures > retry

\* two failed attempts, then the reply {"candidates": [{"output": "ok"}]}
C2_Witness ==
    /\ gstatus = "returned"
    /\ retry >= 2
    /\ calls = 3
    /\ ~outcomes[1].ok /\ ~outcomes[2].ok
    /\ outcomes[3].resp = OkReply
    /\ gresult = S("ok")

\* C3: when every attempt fails, exactly retry + 1 attempts are made, the loop
\* ends, and the terminal failure carries the error of the last attempt.
C3_TerminalFailureCarriesLastError ==
    /\ calls <= retry + 1
    /\ gstatus = "raised" =>
         /\ calls = retry + 1
         /\ Len(outcomes) = retry + 1
         /\ \A i \in 1..Len(outcomes) : ~outcomes[i].ok
         /\ gresult = outcomes[retry + 1].exc
         /\ gresult.at = retry
    /\ (gstatus = "running" /\ Failures = retry + 1) => ENABLED RaiseAfterLoop

\* three failed attempts of different kinds with retry = 2
C3_Witness ==
    /\ gstatus = "raised"
    /\ retry = 2
    /\ calls = 3
    /\ outcomes[1].exc.kind = "Timeout"
    /\ outcomes[2].exc.kind = "Empty response from model"
    /\ gresult = Exc("ApiError", 2)

\* C9: a call that made n attempts slept n - 1 times, none after the final
\* attempt, and no delay exceeds 10 seconds.
C9_SleepsOnlyBetweenAttempts ==
    /\ gstatus \in {"returned", "raised"} => Len(sleeps) = calls - 1
    /\ \A i \in 1..Len(sleeps) : sleeps[i] <= 10

(***************************************************************************)
(* app.py: the chat script and st.session_state.messages                   *)
(***************************************************************************)
\* lines 104-107: the Gemini history of the messages before the newest one
ToGemini(ms) ==
    [i \in 1..Len(ms) |->
        [role  |-> IF ms[i].role = "user" THEN "user" ELSE "model",
         parts |-> <<ms[i].content>>]]

InitApp ==
    /\ messages = <<>>
    /\ history_for_gemini = <<>>
    /\ ParseIdle /\ CleanIdle /\ PromptIdle /\ ExtractIdle /\ RetryIdle

\* a run with a chat input whose model call succeeds: lines 97, 104-127
ChatInputAnswered ==
    /\ Len(messages) + 2 <= MaxMsgs
    /\ \E p \in {"p1", "p2"}, full_response \in {"", "r"} :
         /\ history_for_gemini' = ToGemini(messages)
         /\ messages' = messages \o <<[role |-> "user", content |-> p],
                                      [role |-> "assistant", content |-> full_response]>>
    /\ UNCHANGED <<parseVars, cleanVars, promptVars, extractVars, retryVars>>

\* a run with a chat input whose model call raises: lines 97, 104-117, 129-130
ChatInputFails ==
    /\ Len(messages) + 1 <= MaxMsgs
    /\ \E p \in {"p1", "p2"} :
         /\ history_for_gemini' = ToGemini(messages)
         /\ messages' = Append(messages, [role |-> "user", content |-> p])
    /\ UNCHANGED <<parseVars, cleanVars, promptVars, extractVars, retryVars>>

\* lines 58-60: the clear-memory button
ClearMemory ==
    /\ messages' = <<>>
    /\ UNCHANGED history_for_gemini
    /\ UNCHANGED <<parseVars, cleanVars, promptVars, extractVars, retryVars>>

NextApp == ChatInputAnswered \/ ChatInputFails \/ ClearMemory

SpecApp == InitApp /\ [][NextApp]_vars

\* C10: the session message list alternates user, assistant, user, ... from a
\* user message on, and the history passed to the model never holds two
\* consecutive user turns.
C10_RolesAlternate ==
    /\ \A i \in 1..Len(messages) :
         messages[i].role = (IF i % 2 = 1 THEN "user" ELSE "assistant")
    /\ \A i \in 1..(Len(history_for_gemini) - 1) :
         ~(history_for_gemini[i].role = "user" /\ history_for_gemini[i + 1].role = "user")

====
